---- MODULE Spec2Model ----
(***************************************************************************)
(* Technical-indicator enrichment (DataEnricher).                          *)
(*                                                                         *)
(* Three parts of the program are modelled:                                *)
(*   - safe_ta_function, the result normalizer (pure function);            *)
(*   - get_indicators_for_date, the snapshot builder, in the script        *)
(*     variant and in the notebook variant (pure functions of the          *)
(*     retrieved series and of which computations raise);                  *)
(*   - enrich_dataset_with_indicators / save_indicators_incrementally /    *)
(*     main, the batch driver, as a state machine over the output file.    *)
(***************************************************************************)
EXTENDS Integers, Sequences, FiniteSets, TLC

VARIABLES
    \* ---- normalizer harness
    nz_input,            \* outcome of func(*args, **kwargs) handed to safe_ta_function
    nz_result,           \* what safe_ta_function returned ("pending" before the call)
    \* ---- snapshot-builder harness
    b_input,             \* [ticker, date, stock] handed to get_indicators_for_date
    b_result,            \* result of the script variant
    nb_result,           \* result of the notebook variant
    \* ---- batch driver
    requests,            \* df: the rows of the input file, in order
    batch_size,          \* batch_size parameter
    file,                \* output_file: [exists, lines]
    pc,                  \* position of the driver / main
    err,                 \* exception in flight or caught ("none" when there is none)
    start_idx,           \* loop variable of the outer for
    idx,                 \* position of the inner for (0-based, absolute)
    processed_records,
    successful_fetches,
    failed_fetches,
    batch_count,
    batch_indicators     \* pending list of the current batch

nzvars == <<nz_input, nz_result>>
bvars == <<b_input, b_result, nb_result>>
dvars == <<requests, batch_size, file, pc, err, start_idx, idx, processed_records,
           successful_fetches, failed_fetches, batch_count, batch_indicators>>
vars == <<nzvars, bvars, dvars>>

-----------------------------------------------------------------------------
(* Values *)

\* np.nan, the Unavailable marker
NaN == "NaN"
\* the non-missing numbers a computation may produce
Vals == {"1.0", "2.0"}
Cells == Vals \cup {NaN}

\* bounds of the normalizer harness
MaxLen == 3
MaxRows == 2
MaxCols == 2

SeqsOfLen(S, n) == [1..n -> S]
SeqsUpTo(S, n) == UNION {SeqsOfLen(S, k) : k \in 0..n}

-----------------------------------------------------------------------------
(* safe_ta_function *)

\* What func(*args, **kwargs) can do: raise, return None, a scalar, a Series
\* or a DataFrame.  "bad" marks a result whose value extraction raises.
RaiseOutcome == [kind |-> "raise"]
NoneOutcome == [kind |-> "None"]
ScalarOutcomes == [kind : {"scalar"}, val : Cells]
SeriesOutcomes == [kind : {"Series"}, vals : SeqsUpTo(Cells, MaxLen), bad : BOOLEAN]
DataFrameOutcomes ==
    UNION {[kind : {"DataFrame"}, nrows : {r}, cols : SeqsUpTo(SeqsOfLen(Cells, r), MaxCols),
            bad : BOOLEAN] : r \in 0..MaxRows}
Outcomes ==
    {RaiseOutcome, NoneOutcome} \cup ScalarOutcomes \cup SeriesOutcomes \cup DataFrameOutcomes

\* Series.dropna()
dropna(s) == SelectSeq(s, LAMBDA x : x # NaN)
\* Series.iloc[-1]
iloc_last(s) == s[Len(s)]
\* DataFrame.empty: any axis of length 0
df_empty(df) == df.nrows = 0 \/ Len(df.cols) = 0

\* the value of a propagated exception, for a call that does not catch
RAISED == "RAISED"

\* a mutation of first_col: the last column instead of the first
first_col_last(df) == df.cols[Len(df.cols)]

\* result.iloc[:, 0]
first_col(df) == df.cols[1]

\* a mutation of last_valid_value: the last entry, missing or not
last_valid_value_nodrop(s) ==
    IF s # <<>> THEN iloc_last(s) ELSE NaN

\* last_valid = s.dropna(); last_valid.iloc[-1] if not last_valid.empty else np.nan
last_valid_value(s) ==
    LET last_valid == dropna(s)
    IN  IF last_valid # <<>> THEN iloc_last(last_valid) ELSE NaN

\* a mutation of safe_ta_function: no try/except around the body
safe_ta_function_noexcept(result) ==
    IF result.kind = "raise" THEN RAISED
    ELSE IF result.kind = "None" THEN NaN
    ELSE IF result.kind = "DataFrame" THEN
        IF result.bad THEN RAISED
        ELSE IF ~df_empty(result) THEN last_valid_value(first_col(result))
        ELSE NaN
    ELSE IF result.kind = "Series" THEN
        IF result.bad THEN RAISED
        ELSE last_valid_value(result.vals)
    ELSE result.val

\* The try block: func raising, or the extraction raising, ends in the
\* except clause, which returns np.nan.
safe_ta_function(result) ==
    IF result.kind = "raise" THEN NaN
    ELSE IF result.kind = "None" THEN NaN
    ELSE IF result.kind = "DataFrame" THEN
        IF result.bad THEN NaN
        ELSE IF ~df_empty(result) THEN last_valid_value(first_col(result))
        ELSE NaN
    ELSE IF result.kind = "Series" THEN
        IF result.bad THEN NaN
        ELSE last_valid_value(result.vals)
    ELSE result.val

NzInit ==
    /\ nz_input \in Outcomes
    /\ nz_result = "pending"

Normalize ==
    /\ nz_result = "pending"
    /\ nz_result' = safe_ta_function(nz_input)
    /\ UNCHANGED nz_input

-----------------------------------------------------------------------------
(* get_indicators_for_date *)

\* "Need at least 20 data points for most indicators"
MinBars == 20
\* bounds of the retrieved series: bars up to the target date, bars after it
MaxBars == 21
MaxAfter == 1
\* the target date of the harness, as a day number
TargetDate == 90

required_cols == {"Open", "High", "Low", "Close", "Volume"}
ColumnSets == {required_cols, required_cols \ {"Volume"}, {}}

\* the computations of the script variant, by the field they fill
SafeFields == {"atr", "price_distance", "obv", "ad_line", "pvt", "hlc3", "typical_price", "vwap"}
TryFields == {"ulcer_index", "force_index"}
DirectFields == {"std_dev", "volume_close_min", "volume_close_max"}
IndicatorFields == SafeFields \cup TryFields \cup DirectFields

\* the computations of the notebook variant
NbPlainFields ==
    {"rsi", "stoch", "willr", "roc", "mom", "rvi", "cci",
     "ema", "sma", "wma", "hma", "tema", "dema", "vwma", "kama", "swma", "fwma", "hwma", "zlma",
     "adx", "aroon", "psar", "supertrend", "atr", "natr",
     "mfi", "obv", "ad", "cmf", "vwap", "pvt", "eom", "nvi", "pvi"}
NbMacdFields == {"macd", "macd_signal", "macd_hist"}
NbBandFields == {"bb_upper", "bb_middle", "bb_lower", "bb_width"}
NbDirectCalls == {"ta.macd", "ta.bbands"}
NbFields == NbPlainFields \cup NbMacdFields \cup NbBandFields

Computations == IndicatorFields \cup NbFields \cup NbDirectCalls

\* which computations raise on a series: none, any single one, or any two of
\* the script variant
FailSets ==
    {{}} \cup {{c} : c \in Computations} \cup {{c, d} : c \in IndicatorFields, d \in IndicatorFields}
\* which library calls return None on a series
AbsentSets == {{}, {"ta.macd"}, {"ta.bbands"}}

\* the index of a series with nb bars up to the day `date` and na bars after it
DayIndex(date, nb, na) == [i \in 1..(nb + na) |-> date - nb + i]

\* What yf.download gives: it raises, or returns a table with these columns
\* and this index.  fails/absent say how the computations behave on it.
Stocks ==
    {[raises |-> r, columns |-> c, index |-> DayIndex(TargetDate, nb, na), fails |-> f, absent |-> a] :
        r \in BOOLEAN, c \in ColumnSets, nb \in 0..MaxBars, na \in 0..MaxAfter,
        f \in FailSets, a \in AbsentSets}

None == [kind |-> "None"]

\* DataFrame.empty of the retrieved table
stock_empty(columns, index) == columns = {} \/ index = <<>>
\* stock.loc[:date]
loc_upto(index, date) == SelectSeq(index, LAMBDA d : d <= date)
\* stock[col].iloc[-1]
last_bar(col, index) == <<col, index[Len(index)]>>

\* the outcome of one computation over the truncated series
ta_compute(c, stock) ==
    IF c \in stock.fails THEN RaiseOutcome
    ELSE IF c \in stock.absent THEN NoneOutcome
    ELSE [kind |-> "Series", vals |-> <<NaN, "1.0">>, bad |-> FALSE]

\* a computation made inside its own try/except: nan on failure
try_compute(c, stock) ==
    IF c \in stock.fails THEN NaN ELSE "1.0"

\* a computation made directly in the body of the outer try
direct_compute(c, stock) ==
    IF c \in stock.fails THEN RAISED ELSE "1.0"

\* the value of an indicator field of the script variant
field_value(c, stock) ==
    IF c \in SafeFields THEN safe_ta_function(ta_compute(c, stock))
    ELSE IF c \in TryFields THEN try_compute(c, stock)
    ELSE direct_compute(c, stock)

\* an exception leaving a function
Raised == [kind |-> "Raised"]

\* the body of the try block of the script variant
indicators_body(ticker, date, stock) ==
    IF stock.raises THEN Raised
    ELSE IF stock_empty(stock.columns, stock.index) THEN None
    ELSE IF ~(required_cols \subseteq stock.columns) THEN None
    ELSE LET index == loc_upto(stock.index, date)
         IN  IF index = <<>> THEN None
             ELSE IF Len(index) < MinBars THEN None
             ELSE IF \E c \in DirectFields : direct_compute(c, stock) = RAISED THEN Raised
             ELSE [kind |-> "Snapshot",
                   ticker |-> ticker,
                   date |-> date,
                   last_open |-> last_bar("Open", index),
                   last_high |-> last_bar("High", index),
                   last_low |-> last_bar("Low", index),
                   last_close |-> last_bar("Close", index),
                   last_volume |-> last_bar("Volume", index),
                   fields |-> [c \in IndicatorFields |-> field_value(c, stock)]]

\* a mutation of get_indicators_for_date: no except clause
get_indicators_for_date_noexcept(ticker, date, stock) ==
    indicators_body(ticker, date, stock)

\* try: ... except Exception: return None
get_indicators_for_date(ticker, date, stock) ==
    LET r == indicators_body(ticker, date, stock)
    IN  IF r.kind = "Raised" THEN None ELSE r

\* ta.macd / ta.bbands as the notebook calls them: raise, None or a table
nb_direct_call(c, stock) ==
    IF c \in stock.fails THEN RaiseOutcome
    ELSE IF c \in stock.absent THEN NoneOutcome
    ELSE [kind |-> "DataFrame", nrows |-> 1, cols |-> <<<<"1.0">>, <<"1.0">>, <<"1.0">>>>, bad |-> FALSE]

\* isinstance(x, pd.DataFrame) and not x.empty
nb_is_table(x) == x.kind = "DataFrame" /\ ~df_empty(x)

nb_field_value(c, stock) ==
    IF c \in NbPlainFields THEN safe_ta_function(ta_compute(c, stock))
    ELSE IF c \in NbMacdFields THEN
        IF nb_is_table(nb_direct_call("ta.macd", stock))
        THEN safe_ta_function(ta_compute(c, stock)) ELSE NaN
    ELSE
        IF nb_is_table(nb_direct_call("ta.bbands", stock))
        THEN safe_ta_function(ta_compute(c, stock)) ELSE NaN

\* the body of the try block of the notebook variant
nb_indicators_body(ticker, date, stock) ==
    IF stock.raises THEN Raised
    ELSE IF stock_empty(stock.columns, stock.index) THEN None
    ELSE IF ~(required_cols \subseteq stock.columns) THEN None
    ELSE LET index == loc_upto(stock.index, date)
         IN  IF index = <<>> THEN None
             ELSE IF Len(index) < MinBars THEN None
             ELSE IF \E c \in NbDirectCalls : nb_direct_call(c, stock).kind = "raise" THEN Raised
             ELSE [kind |-> "Snapshot",
                   fields |-> [c \in NbFields |-> nb_field_value(c, stock)]]

\* try: ... except ImportError / except Exception: return None
nb_get_indicators_for_date(ticker, date, stock) ==
    LET r == nb_indicators_body(ticker, date, stock)
    IN  IF r.kind = "Raised" THEN None ELSE r

\* the harness has not called the builder yet
Pending == [kind |-> "pending"]

BInit ==
    /\ b_input \in [ticker : {"T"}, date : {TargetDate}, stock : Stocks]
    /\ b_result = Pending
    /\ nb_result = Pending

Build ==
    /\ b_result = Pending
    /\ b_result' = get_indicators_for_date(b_input.ticker, b_input.date, b_input.stock)
    /\ UNCHANGED <<b_input, nb_result>>

BuildNotebook ==
    /\ nb_result = Pending
    /\ nb_result' = nb_get_indicators_for_date(b_input.ticker, b_input.date, b_input.stock)
    /\ UNCHANGED <<b_input, b_result>>

-----------------------------------------------------------------------------
(* enrich_dataset_with_indicators, save_indicators_incrementally, main *)

\* bounds of the driver: rows of the input file, batch_size
MaxRequests == 4
MaxBatch == 3

Min(a, b) == IF a < b THEN a ELSE b

\* a retrieved series with nb bars up to the target date, on which every
\* computation succeeds
PlainStock(raises, columns, nb) ==
    [raises |-> raises, columns |-> columns, index |-> DayIndex(TargetDate, nb, 0),
     fails |-> {}, absent |-> {}]

\* what the retrieval service answers for the rows of the input file:
\* it raises, no data, a column missing, too few bars, enough bars
ReqStocks ==
    {PlainStock(TRUE, required_cols, MinBars),
     PlainStock(FALSE, required_cols, 0),
     PlainStock(FALSE, required_cols \ {"Volume"}, MinBars),
     PlainStock(FALSE, required_cols, MinBars - 1),
     PlainStock(FALSE, required_cols, MinBars)}

\* the input files: row i has ticker i and a time; `stock` is what
\* yf.download will return for it
InputFiles ==
    UNION {{[i \in 1..n |-> [ticker |-> i, time |-> TargetDate, stock |-> st[i]]] :
                st \in [1..n -> ReqStocks]} : n \in 0..MaxRequests}

\* the header line df_batch.to_csv writes
Header == [kind |-> "Header"]
\* a line of an output file left by an earlier run
OldRow == [kind |-> "Old"]
NoFile == [exists |-> FALSE, lines |-> <<>>]
OldFile == [exists |-> TRUE, lines |-> <<Header, OldRow>>]

total_records == Len(requests)
end_idx == Min(start_idx + batch_size, total_records)

\* date_obj of a row
date_obj(row) == row.time

\* the lines a call of save_indicators_incrementally hands to to_csv
csv_lines(indicators_data, is_first_batch) ==
    IF is_first_batch THEN <<Header>> \o indicators_data ELSE indicators_data

\* the content to_csv starts from: mode='w' truncates, mode='a' keeps
csv_base(f, is_first_batch) ==
    IF is_first_batch THEN <<>> ELSE f.lines

\* a mutation of save_indicators_incrementally: no early return on empty input
save_no_empty_guard(indicators_data, f, is_first_batch) ==
    [exists |-> TRUE,
     lines |-> csv_base(f, is_first_batch) \o csv_lines(indicators_data, is_first_batch)]

\* a mutation of save_indicators_incrementally: every batch opens with mode='w'
save_always_overwrite(indicators_data, f, is_first_batch) ==
    IF indicators_data = <<>> THEN f
    ELSE [exists |-> TRUE, lines |-> csv_lines(indicators_data, is_first_batch)]

save_indicators_incrementally(indicators_data, f, is_first_batch) ==
    IF indicators_data = <<>> THEN f
    ELSE [exists |-> TRUE,
          lines |-> csv_base(f, is_first_batch) \o csv_lines(indicators_data, is_first_batch)]

\* to_csv raising: the destination could not be opened, or k lines were
\* written before the failure
failed_write(indicators_data, f, is_first_batch, opened, k) ==
    IF ~opened THEN f
    ELSE [exists |-> TRUE,
          lines |-> csv_base(f, is_first_batch)
                    \o SubSeq(csv_lines(indicators_data, is_first_batch), 1, k)]

DInit ==
    /\ requests \in InputFiles
    /\ batch_size \in 1..MaxBatch
    /\ file \in {NoFile, OldFile}
    /\ pc = "main"
    /\ err = "none"
    /\ start_idx = 0
    /\ idx = 0
    /\ processed_records = 0
    /\ successful_fetches = 0
    /\ failed_fetches = 0
    /\ batch_count = 0
    /\ batch_indicators = <<>>

\* main: the input file is there or not
MainStart ==
    /\ pc = "main"
    /\ \E input_exists \in BOOLEAN :
         pc' = IF input_exists THEN "load" ELSE "main_return"
    /\ UNCHANGED <<requests, batch_size, file, err, start_idx, idx, processed_records,
                   successful_fetches, failed_fetches, batch_count, batch_indicators>>

\* load the dataset, ask before overwriting an existing output file
ConfirmOverwrite ==
    /\ pc = "load"
    /\ IF file.exists
       THEN \E response \in {"y", "n"} :
              IF response # "y"
              THEN pc' = "cancelled" /\ file' = file
              ELSE pc' = "loop" /\ file' = NoFile
       ELSE pc' = "loop" /\ file' = file
    /\ UNCHANGED <<requests, batch_size, err, start_idx, idx, processed_records,
                   successful_fetches, failed_fetches, batch_count, batch_indicators>>

\* a mutation of BatchStart: the pending list is not reset for the new batch
BatchStart_noreset ==
    /\ pc = "loop"
    /\ start_idx < total_records
    /\ batch_count' = batch_count + 1
    /\ idx' = start_idx
    /\ pc' = "rows"
    /\ UNCHANGED <<requests, batch_size, file, err, start_idx, processed_records,
                   successful_fetches, failed_fetches, batch_indicators>>

\* for start_idx in range(0, total_records, batch_size): one more batch
BatchStart ==
    /\ pc = "loop"
    /\ start_idx < total_records
    /\ batch_count' = batch_count + 1
    /\ batch_indicators' = <<>>
    /\ idx' = start_idx
    /\ pc' = "rows"
    /\ UNCHANGED <<requests, batch_size, file, err, start_idx, processed_records,
                   successful_fetches, failed_fetches>>

\* for idx, row in batch_df.iterrows(): the next row is taken and counted
\* as processed before its build starts
NextRequest ==
    /\ pc = "rows"
    /\ idx < end_idx
    /\ processed_records' = processed_records + 1
    /\ pc' = "fetch"
    /\ UNCHANGED <<requests, batch_size, file, err, start_idx, idx, successful_fetches,
                   failed_fetches, batch_count, batch_indicators>>

\* a mutation of ProcessRequest: the failure count is not in an else branch
ProcessRequest_noelse ==
    /\ pc = "fetch"
    /\ LET row == requests[idx + 1]
           result == get_indicators_for_date(row.ticker, date_obj(row), row.stock)
       IN  /\ IF result # None
              THEN /\ successful_fetches' = successful_fetches + 1
                   /\ batch_indicators' = Append(batch_indicators, result)
              ELSE UNCHANGED <<successful_fetches, batch_indicators>>
           /\ failed_fetches' = failed_fetches + 1
           /\ idx' = idx + 1
           /\ pc' = "rows"
    /\ UNCHANGED <<requests, batch_size, file, err, start_idx, processed_records, batch_count>>

\* the build of the row and the count of its outcome
ProcessRequest ==
    /\ pc = "fetch"
    /\ LET row == requests[idx + 1]
           result == get_indicators_for_date(row.ticker, date_obj(row), row.stock)
       IN  IF result.kind = "Raised"
           THEN /\ pc' = "raised"
                /\ err' = "Exception"
                /\ UNCHANGED <<successful_fetches, failed_fetches, batch_indicators, idx>>
           ELSE /\ IF result # None
                   THEN /\ successful_fetches' = successful_fetches + 1
                        /\ batch_indicators' = Append(batch_indicators, result)
                        /\ UNCHANGED failed_fetches
                   ELSE /\ failed_fetches' = failed_fetches + 1
                        /\ UNCHANGED <<successful_fetches, batch_indicators>>
                /\ idx' = idx + 1
                /\ pc' = "rows"
                /\ err' = err
    /\ UNCHANGED <<requests, batch_size, file, start_idx, processed_records, batch_count>>

\* a mutation of FlushBatch: a failed write is caught and the run goes on
FlushBatch_swallow ==
    /\ pc = "rows"
    /\ idx = end_idx
    /\ IF batch_indicators # <<>>
       THEN LET is_first_batch == (batch_count = 1)
                towrite == csv_lines(batch_indicators, is_first_batch)
            IN  \/ file' = save_indicators_incrementally(batch_indicators, file, is_first_batch)
                \/ \E opened \in BOOLEAN, k \in 0..(Len(towrite) - 1) :
                     file' = failed_write(batch_indicators, file, is_first_batch, opened, k)
       ELSE file' = file
    /\ start_idx' = start_idx + batch_size
    /\ pc' = "loop"
    /\ UNCHANGED <<requests, batch_size, err, idx, processed_records, successful_fetches,
                   failed_fetches, batch_count, batch_indicators>>

\* "Save batch to CSV": the write succeeds, or to_csv raises
FlushBatch ==
    /\ pc = "rows"
    /\ idx = end_idx
    /\ IF batch_indicators # <<>>
       THEN LET is_first_batch == (batch_count = 1)
                towrite == csv_lines(batch_indicators, is_first_batch)
            IN  \/ /\ file' = save_indicators_incrementally(batch_indicators, file, is_first_batch)
                   /\ start_idx' = start_idx + batch_size
                   /\ pc' = "loop"
                   /\ err' = err
                \/ /\ \E opened \in BOOLEAN, k \in 0..(Len(towrite) - 1) :
                        file' = failed_write(batch_indicators, file, is_first_batch, opened, k)
                   /\ pc' = "raised"
                   /\ err' = "OSError"
                   /\ start_idx' = start_idx
       ELSE /\ start_idx' = start_idx + batch_size
            /\ pc' = "loop"
            /\ UNCHANGED <<file, err>>
    /\ UNCHANGED <<requests, batch_size, idx, processed_records, successful_fetches,
                   failed_fetches, batch_count, batch_indicators>>

\* "Final summary": the overall success rate divides by processed_records
FinalSummary ==
    /\ pc = "loop"
    /\ start_idx >= total_records
    /\ IF processed_records = 0
       THEN pc' = "raised" /\ err' = "ZeroDivisionError"
       ELSE pc' = "verify" /\ err' = err
    /\ UNCHANGED <<requests, batch_size, file, start_idx, idx, processed_records,
                   successful_fetches, failed_fetches, batch_count, batch_indicators>>

\* pd.read_csv(output_file): the first line gives the column names
read_columns(f) == f.lines[1]
\* len(output_df): the lines after the first
read_records(f) == Len(f.lines) - 1

\* "Verify output file": read it back and print a sample by column name
VerifyOutput ==
    /\ pc = "verify"
    /\ IF file.exists /\ read_columns(file) # Header
       THEN pc' = "raised" /\ err' = "KeyError"
       ELSE pc' = "returned" /\ err' = err
    /\ UNCHANGED <<requests, batch_size, file, start_idx, idx, processed_records,
                   successful_fetches, failed_fetches, batch_count, batch_indicators>>

Running == pc \in {"load", "loop", "rows", "fetch", "verify"}

\* the user interrupts the run
Interrupt ==
    /\ Running
    /\ pc' = "raised"
    /\ err' = "KeyboardInterrupt"
    /\ UNCHANGED <<requests, batch_size, file, start_idx, idx, processed_records,
                   successful_fetches, failed_fetches, batch_count, batch_indicators>>

\* main: the call returned, or one of the two handlers runs
MainHandle ==
    /\ pc \in {"returned", "cancelled", "raised"}
    /\ pc' = IF pc # "raised" THEN "main_ok"
             ELSE IF err = "KeyboardInterrupt" THEN "main_interrupted"
             ELSE "main_error"
    /\ UNCHANGED <<requests, batch_size, file, err, start_idx, idx, processed_records,
                   successful_fetches, failed_fetches, batch_count, batch_indicators>>

-----------------------------------------------------------------------------
(* Specifications *)

NzIdle == nz_input = NoneOutcome /\ nz_result = "idle"
BIdle ==
    /\ b_input = [ticker |-> "T", date |-> TargetDate, stock |-> PlainStock(TRUE, required_cols, 0)]
    /\ b_result = None
    /\ nb_result = None
DIdle ==
    /\ requests = <<>>
    /\ batch_size = 1
    /\ file = NoFile
    /\ pc = "idle"
    /\ err = "none"
    /\ start_idx = 0
    /\ idx = 0
    /\ processed_records = 0
    /\ successful_fetches = 0
    /\ failed_fetches = 0
    /\ batch_count = 0
    /\ batch_indicators = <<>>

\* the batch driver
Init == DInit /\ NzIdle /\ BIdle
Next ==
    \/ MainStart /\ UNCHANGED <<nzvars, bvars>>
    \/ ConfirmOverwrite /\ UNCHANGED <<nzvars, bvars>>
    \/ BatchStart /\ UNCHANGED <<nzvars, bvars>>
    \/ NextRequest /\ UNCHANGED <<nzvars, bvars>>
    \/ ProcessRequest /\ UNCHANGED <<nzvars, bvars>>
    \/ FlushBatch /\ UNCHANGED <<nzvars, bvars>>
    \/ FinalSummary /\ UNCHANGED <<nzvars, bvars>>
    \/ VerifyOutput /\ UNCHANGED <<nzvars, bvars>>
    \/ Interrupt /\ UNCHANGED <<nzvars, bvars>>
    \/ MainHandle /\ UNCHANGED <<nzvars, bvars>>
Spec == Init /\ [][Next]_vars

\* safe_ta_function applied to every outcome of a computation
NormInit == NzInit /\ BIdle /\ DIdle
NormNext == Normalize /\ UNCHANGED <<bvars, dvars>>
SpecNorm == NormInit /\ [][NormNext]_vars

\* get_indicators_for_date applied to every retrieved series
BuildInit == BInit /\ NzIdle /\ DIdle
BuildNext ==
    \/ Build /\ UNCHANGED <<nzvars, dvars>>
    \/ BuildNotebook /\ UNCHANGED <<nzvars, dvars>>
SpecBuild == BuildInit /\ [][BuildNext]_vars

-----------------------------------------------------------------------------
(* Properties of safe_ta_function (under SpecNorm) *)

NzCalled == nz_result # "pending" /\ nz_result # "idle"

\* the positions of a sequence that hold a non-missing entry
NonMissing(s) == {i \in 1..Len(s) : s[i] # NaN}

\* C7: safe_ta_function never propagates a computation failure: when the
\* computation raises, or extracting the value from its result raises, the
\* call returns np.nan.
C7_NeverPropagates ==
    (NzCalled /\ (nz_input.kind = "raise"
                  \/ (nz_input.kind \in {"Series", "DataFrame"} /\ nz_input.bad)))
        => nz_result = NaN

C7_Witness ==
    NzCalled /\ nz_input.kind = "raise" /\ nz_result = NaN

\* C8: for a table of two or more columns the result is the most recent
\* non-missing entry of the first column, np.nan when it has none, and every
\* table with the same first column gives the same result.
C8_FirstColumnOnly ==
    (NzCalled /\ nz_input.kind = "DataFrame" /\ ~nz_input.bad /\ Len(nz_input.cols) >= 2)
        => LET col == nz_input.cols[1]
               nm == NonMissing(col)
           IN  /\ IF nm = {} THEN nz_result = NaN
                  ELSE \E k \in nm : (\A j \in nm : j <= k) /\ nz_result = col[k]
               /\ \A rest \in SeqsUpTo(SeqsOfLen(Cells, nz_input.nrows), MaxCols - 1) \ {<<>>} :
                    safe_ta_function([nz_input EXCEPT !.cols = <<col>> \o rest]) = nz_result

C8_Witness ==
    /\ NzCalled
    /\ nz_input.kind = "DataFrame" /\ ~nz_input.bad
    /\ nz_input.cols = <<<<"1.0", NaN>>, <<NaN, "2.0">>>>
    /\ nz_result = "1.0"

\* C9: for a single sequence the result is the entry at the highest
\* non-missing position, whatever follows it, and np.nan when the sequence
\* is empty or all of its entries are missing.
C9_LastNonMissing ==
    (NzCalled /\ nz_input.kind = "Series" /\ ~nz_input.bad)
        => LET nm == NonMissing(nz_input.vals)
           IN  IF nm = {} THEN nz_result = NaN
               ELSE \E k \in nm : (\A j \in nm : j <= k) /\ nz_result = nz_input.vals[k]

C9_Witness ==
    /\ NzCalled
    /\ nz_input.kind = "Series" /\ ~nz_input.bad
    /\ nz_input.vals = <<"1.0", "2.0", NaN>>
    /\ nz_result = "2.0"

-----------------------------------------------------------------------------
(* Properties of get_indicators_for_date (under SpecBuild) *)

\* the series handed to the harness passes every check up to the sufficiency check
Sufficient ==
    /\ ~b_input.stock.raises
    /\ required_cols \subseteq b_input.stock.columns
    /\ Len(loc_upto(b_input.stock.index, b_input.date)) >= MinBars

\* the fields a failing notebook computation leaves without a value
NbAffected(c) ==
    IF c = "ta.macd" THEN NbMacdFields
    ELSE IF c = "ta.bbands" THEN NbBandFields
    ELSE {c}

\* C5: once the series has passed the sufficiency check, a failure of any
\* single computation makes only its own field np.nan; the build still
\* returns a snapshot with every other field computed (both variants).
C5_FailureIsolatedToField ==
    /\ (b_result # Pending /\ Sufficient /\ b_input.stock.absent = {})
         => \A c \in IndicatorFields :
              b_input.stock.fails = {c}
                => /\ b_result.kind = "Snapshot"
                   /\ \A f \in IndicatorFields : (b_result.fields[f] = NaN) <=> (f = c)
    /\ (nb_result # Pending /\ Sufficient /\ b_input.stock.absent = {})
         => \A c \in NbFields \cup NbDirectCalls :
              b_input.stock.fails = {c}
                => /\ nb_result.kind = "Snapshot"
                   /\ \A f \in NbFields : (nb_result.fields[f] = NaN) <=> (f \in NbAffected(c))

\* C6: a series with fewer than 20 bars after truncation gives None; one with
\* 20 or more bars and the five OHLCV columns gives a snapshot.
C6_TwentyBarFloor ==
    (b_result # Pending /\ ~b_input.stock.raises)
        => LET bars == Len(loc_upto(b_input.stock.index, b_input.date))
           IN  /\ bars < MinBars => b_result = None
               /\ (bars >= MinBars /\ required_cols \subseteq b_input.stock.columns)
                    => b_result.kind = "Snapshot"

-----------------------------------------------------------------------------
(* Properties of the batch driver (under Spec) *)

\* what the build of row i returns
Built(i) == get_indicators_for_date(requests[i].ticker, date_obj(requests[i]), requests[i].stock)

\* the snapshots of rows lo..hi, in order
Successful(lo, hi) ==
    SelectSeq([j \in 1..(IF hi >= lo THEN hi - lo + 1 ELSE 0) |-> Built(lo + j - 1)],
              LAMBDA r : r # None)

\* the data rows of an output file written by this run
FileRows(f) == SelectSeq(f.lines, LAMBDA l : l.kind = "Snapshot")
HeaderLines(f) == SelectSeq(f.lines, LAMBDA l : l = Header)

IsPrefix(s, t) == Len(s) <= Len(t) /\ SubSeq(t, 1, Len(s)) = s

\* the outer loop has run to its end
LoopDone == pc \in {"verify", "returned"}

\* C1: when the loop has completed, the data rows of the output are exactly
\* the snapshots of the successful builds, once each and in order, whatever
\* batch_size is.
C1_RowsEqualSuccesses ==
    LoopDone => /\ FileRows(file) = Successful(1, total_records)
                /\ Len(FileRows(file)) = successful_fetches

C1_Witness ==
    /\ pc = "verify"
    /\ batch_count >= 2
    /\ successful_fetches >= 2
    /\ failed_fetches >= 1
    /\ Len(FileRows(file)) = successful_fetches

\* C2: an output that holds rows holds exactly one header line, and it is
\* the first line.
C2_OneHeaderFirst ==
    FileRows(file) # <<>>
        => /\ file.lines[1] = Header
           /\ Len(HeaderLines(file)) = 1
           /\ Len(file.lines) = 1 + Len(FileRows(file))

\* C3: a build that returns None counts one failure, adds no snapshot, and
\* the driver goes on with the next row; no build ever aborts the run, and a
\* run whose loop ends has processed every row.
C3_FailureDoesNotAbort ==
    /\ [][(ProcessRequest /\ Built(idx + 1) = None)
            => /\ failed_fetches' = failed_fetches + 1
               /\ successful_fetches' = successful_fetches
               /\ batch_indicators' = batch_indicators
               /\ file' = file
               /\ idx' = idx + 1
               /\ pc' = "rows"
               /\ err' = "none"]_vars
    /\ [](pc = "rows" => processed_records = idx)
    /\ [](err # "Exception")
    /\ [](LoopDone => processed_records = total_records)

C3_Witness ==
    /\ pc = "verify"
    /\ total_records >= 3
    /\ Built(1) = None
    /\ Built(2) # None
    /\ Built(total_records) # None
    /\ failed_fetches = 1
    /\ processed_records = total_records

\* C4: in every state the snapshots of the completed batches are in the
\* output, the pending list holds only snapshots of the current batch and
\* never more than batch_size, and at most batch_size built snapshots are
\* unwritten.
C4_AtMostOneBatchPending ==
    /\ IsPrefix(Successful(1, Min(start_idx, total_records)), FileRows(file))
    /\ Len(batch_indicators) <= batch_size
    /\ pc \in {"rows", "fetch"} => batch_indicators = Successful(start_idx + 1, idx)
    /\ Len(Successful(1, processed_records)) - Len(FileRows(file)) <= batch_size

C4_Witness ==
    /\ pc = "rows"
    /\ batch_count = 2
    /\ batch_size >= 2
    /\ Len(batch_indicators) = batch_size
    /\ Len(FileRows(file)) = batch_size

\* C10: a flush that does not write its whole batch raises out of
\* enrich_dataset_with_indicators; after that no request is processed, the
\* output is not touched again and main's handler runs; the batches flushed
\* earlier stay in the output.
C10_WriteFailurePropagates ==
    /\ [][(FlushBatch /\ batch_indicators # <<>>
             /\ file' # save_indicators_incrementally(batch_indicators, file, batch_count = 1))
            => /\ pc' = "raised"
               /\ err' = "OSError"
               /\ IsPrefix(Successful(1, start_idx), FileRows(file'))]_vars
    /\ [][pc = "raised"
            => /\ pc' \in {"main_error", "main_interrupted"}
               /\ processed_records' = processed_records
               /\ file' = file]_vars
    /\ [][pc = "main_error" => UNCHANGED vars]_vars

C10_Witness ==
    /\ pc = "main_error"
    /\ err = "OSError"
    /\ batch_count = 2
    /\ FileRows(file) # <<>>
    /\ processed_records < total_records

\* the requests whose outcome has been counted
Counted == successful_fetches + failed_fetches

\* C11: in every state successful_fetches + failed_fetches =
\* processed_records, and when the loop has ended processed_records =
\* total_records.
C11_CountersPartition ==
    /\ Counted = processed_records
    /\ LoopDone => processed_records = total_records

\* C11, amended: the two counters add up to processed_records whenever the
\* driver is between requests; while a build is in progress (and after an
\* interrupt during one) processed_records is exactly one ahead.  Each
\* request whose build has ended is counted once, as a success or as a
\* failure according to its outcome, and a loop that ends has processed
\* every row.
C11_CountersPartitionBetweenRequests ==
    /\ []((pc # "fetch" /\ err # "KeyboardInterrupt") => Counted = processed_records)
    /\ [](pc = "fetch" => processed_records = Counted + 1)
    /\ [](processed_records - Counted \in {0, 1})
    /\ [](successful_fetches = Len(Successful(1, Counted)))
    /\ [][ProcessRequest
            => \/ successful_fetches' = successful_fetches + 1 /\ failed_fetches' = failed_fetches
               \/ successful_fetches' = successful_fetches /\ failed_fetches' = failed_fetches + 1]_vars
    /\ [][(successful_fetches' # successful_fetches \/ failed_fetches' # failed_fetches)
            => ProcessRequest]_vars
    /\ [](LoopDone => processed_records = total_records)

C11_Witness ==
    /\ pc = "fetch"
    /\ successful_fetches >= 1
    /\ failed_fetches >= 1
    /\ processed_records = Counted + 1

\* C12: a batch without a successful build is flushed as a no-op: the file
\* is not touched, nothing is raised and the loop goes on with the next
\* batch; save_indicators_incrementally leaves the destination alone on an
\* empty list, whatever is_first_batch is.
C12_EmptyBatchNoOp ==
    /\ [][(FlushBatch /\ batch_indicators = <<>>)
            => /\ file' = file
               /\ pc' = "loop"
               /\ err' = "none"
               /\ start_idx' = start_idx + batch_size]_vars
    /\ [](\A is_first_batch \in BOOLEAN :
            save_indicators_incrementally(<<>>, file, is_first_batch) = file)

C12_Witness ==
    /\ pc = "rows"
    /\ batch_count = 2
    /\ batch_indicators = <<>>
    /\ failed_fetches = batch_size
    /\ successful_fetches = 0
    /\ ~file.exists

\* C13: whatever the request sequence, enrich_dataset_with_indicators raises
\* nothing of its own (only a failed write or an interrupt can end it
\* early), and a loop that ends has processed every row.
C13_TerminatesNormally ==
    /\ err \in {"none", "OSError", "KeyboardInterrupt"}
    /\ LoopDone => processed_records = total_records

====
